---- MODULE Spec2Model ----
(***************************************************************************)
(* Tic Tac Toe, human against a minimax computer player (src/src/App.jsx). *)
(*                                                                         *)
(* The board model (LINES, winnerInfo, isFull), the search (minimax,       *)
(* bestMove) and the App component's round controller: its state hooks,    *)
(* its three effects (derive result, score, computer move) and its event   *)
(* handlers (clickCell, restartRound, chooseSymbol, the sound toggle and   *)
(* the computer-move timer callback).                                      *)
(*                                                                         *)
(* One step of Spec is one event: the handler's batched state updates      *)
(* followed by React's commit, in which the effects whose dependencies     *)
(* changed run in declaration order, each reading the values of the render *)
(* it belongs to, and the component re-renders until no state changes.     *)
(* Cells are indexed 0..8 as in the source; null is the string "null".     *)
(***************************************************************************)
EXTENDS Integers, Sequences, FiniteSets, TLC

VARIABLES board, human, turn, result, winLine, score, soundOn, scoredRef,
          timer, lastOp, probe

vars == <<board, human, turn, result, winLine, score, soundOn, scoredRef,
          timer, lastOp, probe>>

null == "null"

Marks == {"X", "O"}

Cells == 0..8

\* Rounds that may be started after the first one (caps the score counters).
MaxRounds == 2

\* Most empty cells of a board handed to bestMove in SpecPure.
MaxEmpty == 4

\* Rounds scored before FairSpec stops.
MaxLiveRounds == 1

-----------------------------------------------------------------------------
(* Board model *)

LINES ==
  << <<0, 1, 2>>, <<3, 4, 5>>, <<6, 7, 8>>,
     <<0, 3, 6>>, <<1, 4, 7>>, <<2, 5, 8>>,
     <<0, 4, 8>>, <<2, 4, 6>> >>

emptyBoard == [i \in Cells |-> null]

\* The value winnerInfo returns when no line is complete (JavaScript null).
NoWin == [symbol |-> null, line |-> <<>>]

\* The test of line 33 without its truthiness check of board[a].
lineHitNoTruthy(b, l) == b[l[1]] = b[l[2]] /\ b[l[1]] = b[l[3]]

\* board[a] && board[a] === board[b] && board[a] === board[c]
lineHit(b, l) == b[l[1]] # null /\ b[l[1]] = b[l[2]] /\ b[l[1]] = b[l[3]]

\* The for loop of winnerInfo from the k-th line on: the first hit returns.
RECURSIVE winnerFrom(_, _)
winnerFrom(b, k) ==
  IF k > Len(LINES) THEN NoWin
  ELSE IF lineHit(b, LINES[k])
       THEN [symbol |-> b[LINES[k][1]], line |-> LINES[k]]
       ELSE winnerFrom(b, k + 1)

winnerInfo(b) == winnerFrom(b, 1)

isFull(b) == \A i \in Cells : b[i] # null

-----------------------------------------------------------------------------
(* Search *)

\* Math.max / Math.min folded over the scores of a non-empty set of moves.
MaxOf(S) == CHOOSE x \in S : \A y \in S : y <= x

MinOf(S) == CHOOSE x \in S : \A y \in S : x <= y

emptyCells(b) == {i \in Cells : b[i] = null}

\* The null bestMove returns when moves is empty (not a number, line 270).
nullMove == -1

\* The boards minimax recurses on: the mover's mark on each empty cell.
children(b, isMax, aiM, humanM) ==
  {[b EXCEPT ![i] = IF isMax THEN aiM ELSE humanM] : i \in emptyCells(b)}

\* The body of minimax scoring a win 10 and a loss -10 at every depth.
minimaxBodyFlat(b, depth, isMax, aiM, replies) ==
  LET w == winnerInfo(b) IN
  IF w # NoWin
  THEN (IF w.symbol = aiM THEN 10 ELSE -10)
  ELSE IF isFull(b) THEN 0
  ELSE IF isMax THEN MaxOf(replies)
  ELSE MinOf(replies)

\* The body of minimax; replies is the set of the values of its recursive
\* calls (on children, at depth + 1, the other party to move), read only
\* when the board is neither won nor full.
minimaxBody(b, depth, isMax, aiM, replies) ==
  LET w == winnerInfo(b) IN
  IF w # NoWin
  THEN (IF w.symbol = aiM THEN 10 - depth ELSE depth - 10)
  ELSE IF isFull(b) THEN 0
  ELSE IF isMax THEN MaxOf(replies)
  ELSE MinOf(replies)

RECURSIVE minimax(_, _, _, _, _)
minimax(b, depth, isMax, aiM, humanM) ==
  minimaxBody(b, depth, isMax, aiM,
              {minimax(c, depth + 1, ~isMax, aiM, humanM) :
                 c \in children(b, isMax, aiM, humanM)})

-----------------------------------------------------------------------------
(* minimax tabulated.  The value of minimax on a board is computed once,   *)
(* from the values on the boards with one empty cell less, for the boards  *)
(* of alternating play (X has as many marks as O, or one more), the two    *)
(* parties moving in turn, and the depths a search from such a board can   *)
(* reach.  Any other call is evaluated by the recursion itself.            *)

\* The other mark: human === 'X' ? 'O' : 'X' (line 159).
aiFor(h) == IF h = "X" THEN "O" ELSE "X"

count(b, m) == Cardinality({i \in Cells : b[i] = m})

\* The mark to move on a board of alternating play (X begins).
mover(b) == IF count(b, "X") = count(b, "O") THEN "X" ELSE "O"

alternating(b) == count(b, "X") - count(b, "O") \in {0, 1}

\* Boards are numbered 1..3^9, cell i being the i-th ternary digit.
digit(c) == IF c = "X" THEN 1 ELSE IF c = "O" THEN 2 ELSE 0

code(b) ==
  1 + digit(b[0]) + 3 * digit(b[1]) + 9 * digit(b[2]) + 27 * digit(b[3])
    + 81 * digit(b[4]) + 243 * digit(b[5]) + 729 * digit(b[6])
    + 2187 * digit(b[7]) + 6561 * digit(b[8])

cellOf(n, i) ==
  LET t == ((n - 1) \div (3 ^ i)) % 3
  IN IF t = 1 THEN "X" ELSE IF t = 2 THEN "O" ELSE null

boardOf(n) == [i \in Cells |-> cellOf(n, i)] @@ <<>>

markIx(m) == IF m = "X" THEN 1 ELSE 2

\* The calls of minimax the table holds.
tabulated(b, depth, isMax, aiM, humanM) ==
  /\ humanM = aiFor(aiM)
  /\ alternating(b)
  /\ isMax = (mover(b) = aiM)
  /\ depth \in 0..(8 - count(b, null))

lookup(tbl, b, depth, isMax, aiM, humanM) ==
  IF tabulated(b, depth, isMax, aiM, humanM)
  THEN tbl[code(b)][depth + 1][markIx(aiM)]
  ELSE minimax(b, depth, isMax, aiM, humanM)

entry(b, depth, aiM, sub) ==
  minimaxBody(b, depth, mover(b) = aiM, aiM,
              {lookup(sub, c, depth + 1, mover(b) # aiM, aiM, aiFor(aiM)) :
                 c \in children(b, mover(b) = aiM, aiM, aiFor(aiM))})

\* The table of the boards with e empty cells, from the table sub of the
\* boards with e - 1 (concatenating <<>> makes TLC evaluate it once).
memoLayer(e, sub) ==
  [n \in 1..(3 ^ 9) |->
     LET b == boardOf(n) IN
     IF count(b, null) = e /\ alternating(b)
     THEN [d \in 1..(9 - e) |->
             <<entry(b, d - 1, "X", sub), entry(b, d - 1, "O", sub)>>] \o <<>>
     ELSE <<>>] \o <<>>

memo0 == memoLayer(0, <<>>)

memo1 == memoLayer(1, memo0)

memo2 == memoLayer(2, memo1)

memo3 == memoLayer(3, memo2)

memo4 == memoLayer(4, memo3)

memo5 == memoLayer(5, memo4)

memo6 == memoLayer(6, memo5)

memo7 == memoLayer(7, memo6)

memo8 == memoLayer(8, memo7)

minimaxMemo == <<memo1, memo2, memo3, memo4, memo5, memo6, memo7, memo8>>

\* minimax(b, depth, isMax, ai, human), read from the table where it is held.
minimaxAt(b, depth, isMax, aiM, humanM) ==
  IF count(b, null) = 0
  THEN lookup(memo0, b, depth, isMax, aiM, humanM)
  ELSE IF count(b, null) = 9
  THEN minimax(b, depth, isMax, aiM, humanM)
  ELSE lookup(minimaxMemo[count(b, null)], b, depth, isMax, aiM, humanM)

-----------------------------------------------------------------------------
(* bestMove *)

\* bestOf that keeps the least score instead of the greatest.
bestOfLeast(scored) ==
  LET best == MinOf({p[2] : p \in scored})
  IN {p[1] : p \in {q \in scored : q[2] = best}}

\* The moves array of bestMove after its loop over the scored candidates
\* (pairs <<index, score>>): every index whose score is the greatest.
bestOf(scored) ==
  LET best == MaxOf({p[2] : p \in scored})
  IN {p[1] : p \in {q \in scored : q[2] = best}}

\* bestMove that scans every cell, empty or not.
bestMoveAnyCell(b, aiM, humanM) ==
  LET scored == {<<i, minimaxAt([b EXCEPT ![i] = aiM], 0, FALSE, aiM, humanM)>> :
                   i \in Cells}
  IN IF scored = {} THEN {nullMove} ELSE bestOf(scored)

\* The set of values bestMove can return: nullMove when moves is empty, else
\* any element of moves (Math.random picks the index).
bestMove(b, aiM, humanM) ==
  LET scored == {<<i, minimaxAt([b EXCEPT ![i] = aiM], 0, FALSE, aiM, humanM)>> :
                   i \in emptyCells(b)}
  IN IF scored = {} THEN {nullMove} ELSE bestOf(scored)

-----------------------------------------------------------------------------
(* App: state, effects and commit *)

\* const ai = useMemo(() => (human === 'X' ? 'O' : 'X'), [human])
ai == aiFor(human)

\* No computer-move timer is scheduled.
NoTimer == [board |-> emptyBoard, ai |-> null, human |-> null]

\* The component's state as one record: the useState values, scoredRef and
\* the timer of the computer-move effect with the values its closure holds.
cur ==
  [board |-> board, human |-> human, turn |-> turn, result |-> result,
   winLine |-> winLine, score |-> score, soundOn |-> soundOn,
   scoredRef |-> scoredRef, timer |-> timer]

\* The useState values, which decide whether React renders again.
rendered(s) ==
  <<s.board, s.human, s.turn, s.result, s.winLine, s.score, s.soundOn>>

\* The derive-result effect testing isFull before winnerInfo.
deriveResultEffectFullFirst(prev, r, boardNew, p) ==
  IF boardNew \/ r.board # prev.board \/ r.human # prev.human
  THEN LET w == winnerInfo(r.board) IN
       IF isFull(r.board)
       THEN [p EXCEPT !.winLine = <<>>, !.result = "draw"]
       ELSE IF w # NoWin
       THEN [p EXCEPT !.winLine = w.line,
                      !.result = IF w.symbol = r.human THEN "human" ELSE "ai"]
       ELSE [p EXCEPT !.winLine = <<>>, !.result = null]
  ELSE p

\* Effect "derive result whenever board changes", dependencies [board, human].
\* prev and r are the previous and the current render, boardNew tells that
\* board is a new array, p is the state the effects of this commit write to.
deriveResultEffect(prev, r, boardNew, p) ==
  IF boardNew \/ r.board # prev.board \/ r.human # prev.human
  THEN LET w == winnerInfo(r.board) IN
       IF w # NoWin
       THEN [p EXCEPT !.winLine = w.line,
                      !.result = IF w.symbol = r.human THEN "human" ELSE "ai"]
       ELSE IF isFull(r.board)
       THEN [p EXCEPT !.winLine = <<>>, !.result = "draw"]
       ELSE [p EXCEPT !.winLine = <<>>, !.result = null]
  ELSE p

\* The setScore updater of lines 250-254.
addScore(sc, res) ==
  IF res = "human" THEN [sc EXCEPT !.wins = @ + 1]
  ELSE IF res = "ai" THEN [sc EXCEPT !.losses = @ + 1]
  ELSE [sc EXCEPT !.draws = @ + 1]

\* The score effect without its scoredRef guard of line 248.
scoreEffectNoGuard(prev, r, p) ==
  IF r.soundOn # prev.soundOn \/ r.result # prev.result
  THEN IF r.result = null THEN p
       ELSE [p EXCEPT !.score = addScore(@, r.result),
                      !.scoredRef = r.result]
  ELSE p

\* Effect "score + end-of-round tones", dependencies [beep, result]; beep is
\* a new callback exactly when soundOn changed.
scoreEffect(prev, r, p) ==
  IF r.soundOn # prev.soundOn \/ r.result # prev.result
  THEN IF r.result = null THEN p
       ELSE IF p.scoredRef = r.result THEN p
       ELSE [p EXCEPT !.score = addScore(@, r.result),
                      !.scoredRef = r.result]
  ELSE p

\* The computer-move effect with board left out of its dependencies.
aiMoveEffectNoBoardDep(prev, r, boardNew, p) ==
  IF \/ r.human # prev.human \/ r.soundOn # prev.soundOn
     \/ r.result # prev.result \/ r.turn # prev.turn
  THEN IF r.result # null \/ r.turn # aiFor(r.human)
       THEN [p EXCEPT !.timer = NoTimer]
       ELSE [p EXCEPT !.timer = [board |-> r.board, ai |-> aiFor(r.human),
                                 human |-> r.human]]
  ELSE p

\* The computer-move effect whose re-run for a new beep alone clears the
\* timer and sets none.
aiMoveEffectDropOnBeep(prev, r, boardNew, p) ==
  IF \/ boardNew \/ r.board # prev.board
     \/ r.human # prev.human
     \/ r.result # prev.result \/ r.turn # prev.turn
  THEN IF r.result # null \/ r.turn # aiFor(r.human)
       THEN [p EXCEPT !.timer = NoTimer]
       ELSE [p EXCEPT !.timer = [board |-> r.board, ai |-> aiFor(r.human),
                                 human |-> r.human]]
  ELSE IF r.soundOn # prev.soundOn THEN [p EXCEPT !.timer = NoTimer]
  ELSE p

\* Effect "AI move", dependencies [ai, beep, board, human, result, turn]:
\* the cleanup clears the timer of the previous run, then a timer is set
\* (holding this render's board, ai and human) unless a guard returns.
aiMoveEffect(prev, r, boardNew, p) ==
  IF \/ boardNew \/ r.board # prev.board
     \/ r.human # prev.human \/ r.soundOn # prev.soundOn
     \/ r.result # prev.result \/ r.turn # prev.turn
  THEN IF r.result # null \/ r.turn # aiFor(r.human)
       THEN [p EXCEPT !.timer = NoTimer]
       ELSE [p EXCEPT !.timer = [board |-> r.board, ai |-> aiFor(r.human),
                                 human |-> r.human]]
  ELSE p

\* The effects of one commit, in declaration order.
runEffects(prev, r, boardNew) ==
  aiMoveEffect(prev, r, boardNew,
    scoreEffect(prev, r,
      deriveResultEffect(prev, r, boardNew, r)))

\* Commit the render r that follows the render prev, and render again while
\* an effect changed a useState value.
RECURSIVE commit(_, _, _)
commit(prev, r, boardNew) ==
  LET p == runEffects(prev, r, boardNew) IN
  IF rendered(p) = rendered(r) THEN p ELSE commit(r, p, FALSE)

-----------------------------------------------------------------------------
(* App: event handlers, as the state their batched updates leave *)

\* restartRound that leaves turn as it is.
restartRoundKeepTurn(s) ==
  [s EXCEPT !.board = emptyBoard, !.result = null,
            !.winLine = <<>>, !.scoredRef = null]

\* restartRound that hands the first move to the other mark each time.
restartRoundAlternate(s) ==
  [s EXCEPT !.board = emptyBoard, !.turn = aiFor(@), !.result = null,
            !.winLine = <<>>, !.scoredRef = null]

restartRound(s) ==
  [s EXCEPT !.board = emptyBoard, !.turn = "X", !.result = null,
            !.winLine = <<>>, !.scoredRef = null]

\* chooseSymbol that switches the mark without clearing the board.
chooseSymbolKeepBoard(s, next) ==
  IF next = s.human THEN s
  ELSE [s EXCEPT !.human = next, !.turn = "X",
                 !.result = null, !.winLine = <<>>, !.scoredRef = null]

\* chooseSymbol without its early return of line 193.
chooseSymbolAlwaysReset(s, next) ==
  [s EXCEPT !.human = next, !.board = emptyBoard, !.turn = "X",
            !.result = null, !.winLine = <<>>, !.scoredRef = null]

chooseSymbol(s, next) ==
  IF next = s.human THEN s
  ELSE [s EXCEPT !.human = next, !.board = emptyBoard, !.turn = "X",
                 !.result = null, !.winLine = <<>>, !.scoredRef = null]

\* clickCell without its check of result (line 285).
clickCellNoResultCheck(s, idx) ==
  IF s.turn # s.human \/ s.board[idx] # null THEN s
  ELSE [s EXCEPT !.board = [@ EXCEPT ![idx] = s.human],
                 !.turn = aiFor(s.human)]

\* clickCell without its check of turn (line 286).
clickCellNoTurnCheck(s, idx) ==
  IF s.result # null \/ s.board[idx] # null THEN s
  ELSE [s EXCEPT !.board = [@ EXCEPT ![idx] = s.human],
                 !.turn = aiFor(s.human)]

clickCell(s, idx) ==
  IF s.result # null \/ s.turn # s.human \/ s.board[idx] # null THEN s
  ELSE [s EXCEPT !.board = [@ EXCEPT ![idx] = s.human],
                 !.turn = aiFor(s.human)]

\* onClick={() => setSoundOn((v) => !v)}
toggleSound(s) == [s EXCEPT !.soundOn = ~@]

\* The timer callback of the computer-move effect, for the move bestMove
\* returned; t holds the board, ai and human of the effect's closure.
aiTimeout(s, t, move) ==
  IF move = nullMove THEN [s EXCEPT !.timer = NoTimer]
  ELSE [s EXCEPT !.board = IF @[move] # null THEN @
                           ELSE [@ EXCEPT ![move] = t.ai],
                 !.turn = t.human,
                 !.timer = NoTimer]

-----------------------------------------------------------------------------
(* The round controller as a state machine *)

\* probe holds one call of bestMove made on its own (SpecPure): the board
\* and the computer's mark handed to it and, once done, the value returned.
NoProbe == [board |-> emptyBoard, ai |-> null, done |-> FALSE, move |-> nullMove]

total(sc) == sc.wins + sc.losses + sc.draws

Init ==
  /\ board = emptyBoard
  /\ human = "X"
  /\ turn = "X"
  /\ result = null
  /\ winLine = <<>>
  /\ score = [wins |-> 0, losses |-> 0, draws |-> 0]
  /\ soundOn = TRUE
  /\ scoredRef = null
  /\ timer = NoTimer
  /\ lastOp = [op |-> "mount", prevHuman |-> "X", pend |-> FALSE,
               again |-> FALSE]
  /\ probe = NoProbe

\* The state s becomes the component's state.
become(s) ==
  LET n == s IN
  /\ board' = n.board
  /\ human' = n.human
  /\ turn' = n.turn
  /\ result' = n.result
  /\ winLine' = n.winLine
  /\ score' = n.score
  /\ soundOn' = n.soundOn
  /\ scoredRef' = n.scoredRef
  /\ timer' = n.timer

\* lastOp is a history variable: the handler of the step, the human's mark
\* and whether a computer-move timer was pending when the event began, and
\* whether the event before was of the same handler.
note(op) ==
  lastOp' = [op |-> op, prevHuman |-> human, pend |-> timer # NoTimer,
             again |-> lastOp.op = op]

ClickCell(idx) ==
  /\ LET r == clickCell(cur, idx) IN become(commit(cur, r, r.board # board))
  /\ note("clickCell")
  /\ UNCHANGED probe

RestartRound ==
  /\ total(score) < MaxRounds
  /\ become(commit(cur, restartRound(cur), TRUE))
  /\ note("restartRound")
  /\ UNCHANGED probe

ChooseSymbol(next) ==
  /\ next # human => total(score) < MaxRounds
  /\ become(commit(cur, chooseSymbol(cur, next), next # human))
  /\ note("chooseSymbol")
  /\ UNCHANGED probe

ToggleSound ==
  /\ become(commit(cur, toggleSound(cur), FALSE))
  /\ note("toggleSound")
  /\ UNCHANGED probe

AiTimeout ==
  /\ timer # NoTimer
  /\ note("aiTimeout")
  /\ UNCHANGED probe
  /\ \E move \in bestMove(timer.board, timer.ai, timer.human) :
       LET r == aiTimeout(cur, timer, move)
       IN become(commit(cur, r, r.board # board))

Next ==
  \/ \E idx \in Cells : ClickCell(idx)
  \/ RestartRound
  \/ \E next \in Marks : ChooseSymbol(next)
  \/ ToggleSound
  \/ AiTimeout

Spec == Init /\ [][Next]_vars

\* The round controller with a timer that fires (window.setTimeout, 520 ms),
\* followed until MaxLiveRounds rounds are scored.  The fairness condition
\* is WF_vars(AiTimeout) written out, []<>~ENABLED <<AiTimeout>>_vars \/
\* []<><<AiTimeout>>_vars: AiTimeout is enabled exactly when a timer is
\* pending, bestMove never returning the empty set, and it clears the timer.
FairNext == total(score) < MaxLiveRounds /\ Next

FairSpec ==
  /\ Init
  /\ [][FairNext]_vars
  /\ ([]<>(timer = NoTimer) \/ []<><<AiTimeout>>_vars)

-----------------------------------------------------------------------------
(* bestMove called on its own, on boards the round controller may or may   *)
(* not reach                                                               *)

\* Every board of alternating play with the computer to move, and every
\* board whatever its marks with at most MaxEmpty empty cells.
PureInputs ==
  {r \in [Cells -> Marks \cup {null}] \X Marks :
     \/ count(r[1], null) <= MaxEmpty
     \/ alternating(r[1]) /\ mover(r[1]) = r[2]}

PureInit ==
  /\ board = emptyBoard
  /\ human = "X"
  /\ turn = "X"
  /\ result = null
  /\ winLine = <<>>
  /\ score = [wins |-> 0, losses |-> 0, draws |-> 0]
  /\ soundOn = TRUE
  /\ scoredRef = null
  /\ timer = NoTimer
  /\ lastOp = [op |-> "mount", prevHuman |-> "X", pend |-> FALSE,
               again |-> FALSE]
  /\ \E r \in PureInputs :
       probe = [board |-> r[1], ai |-> r[2], done |-> FALSE, move |-> nullMove]

CallBestMove ==
  /\ ~probe.done
  /\ \E move \in bestMove(probe.board, probe.ai, aiFor(probe.ai)) :
       probe' = [probe EXCEPT !.done = TRUE, !.move = move]
  /\ UNCHANGED <<board, human, turn, result, winLine, score, soundOn,
                 scoredRef, timer, lastOp>>

PureNext == CallBestMove

SpecPure == PureInit /\ [][PureNext]_vars

-----------------------------------------------------------------------------
(* The search as the source runs it: on one array, written and restored    *)

\* -Infinity and Infinity of the loops (every score lies in -10..10).
Infinity == 100

\* board[i] = ai, board[i] = human
placeCell(b, i, m) == [b EXCEPT ![i] = m]

\* The loops without their board[i] = null.
restoreCellSkipped(b, i) == b

\* board[i] = null
restoreCell(b, i) == [b EXCEPT ![i] = null]

\* minimax on the array b: the value returned and the array as the call
\* leaves it.  minimaxLoop is the for loop from index i on, best so far.
RECURSIVE minimaxInPlace(_, _, _, _, _)
RECURSIVE minimaxLoop(_, _, _, _, _, _, _)
minimaxLoop(b, i, best, depth, isMax, aiM, humanM) ==
  IF i = 9 THEN [score |-> best, board |-> b]
  ELSE IF b[i] # null
  THEN minimaxLoop(b, i + 1, best, depth, isMax, aiM, humanM)
  ELSE LET r == minimaxInPlace(placeCell(b, i, IF isMax THEN aiM ELSE humanM),
                               depth + 1, ~isMax, aiM, humanM)
           better == IF isMax THEN r.score > best ELSE r.score < best
       IN minimaxLoop(restoreCell(r.board, i), i + 1,
                      IF better THEN r.score ELSE best,
                      depth, isMax, aiM, humanM)

minimaxInPlace(b, depth, isMax, aiM, humanM) ==
  LET w == winnerInfo(b) IN
  IF w # NoWin
  THEN [score |-> IF w.symbol = aiM THEN 10 - depth ELSE depth - 10,
        board |-> b]
  ELSE IF isFull(b) THEN [score |-> 0, board |-> b]
  ELSE minimaxLoop(b, 0, IF isMax THEN -Infinity ELSE Infinity,
                   depth, isMax, aiM, humanM)

\* The loop of bestMove keeping only the first index of the greatest score.
RECURSIVE bestMoveLoopFirstOnly(_, _, _, _, _, _)
bestMoveLoopFirstOnly(b, i, best, moves, aiM, humanM) ==
  IF i = 9 THEN [moves |-> moves, board |-> b]
  ELSE IF b[i] # null
  THEN bestMoveLoopFirstOnly(b, i + 1, best, moves, aiM, humanM)
  ELSE LET r == minimaxInPlace(placeCell(b, i, aiM), 0, FALSE, aiM, humanM)
           after == restoreCell(r.board, i)
       IN IF r.score > best
          THEN bestMoveLoopFirstOnly(after, i + 1, r.score, <<i>>, aiM, humanM)
          ELSE bestMoveLoopFirstOnly(after, i + 1, best, moves, aiM, humanM)

\* The loop of bestMove from index i on: best and moves so far.
RECURSIVE bestMoveLoop(_, _, _, _, _, _)
bestMoveLoop(b, i, best, moves, aiM, humanM) ==
  IF i = 9 THEN [moves |-> moves, board |-> b]
  ELSE IF b[i] # null THEN bestMoveLoop(b, i + 1, best, moves, aiM, humanM)
  ELSE LET r == minimaxInPlace(placeCell(b, i, aiM), 0, FALSE, aiM, humanM)
           after == restoreCell(r.board, i)
       IN IF r.score > best
          THEN bestMoveLoop(after, i + 1, r.score, <<i>>, aiM, humanM)
          ELSE IF r.score = best
          THEN bestMoveLoop(after, i + 1, best, Append(moves, i), aiM, humanM)
          ELSE bestMoveLoop(after, i + 1, best, moves, aiM, humanM)

\* bestMove on the array b: each value it can return, with the array as the
\* call leaves it.
bestMoveInPlace(b, aiM, humanM) ==
  LET r == bestMoveLoop(b, 0, -Infinity, <<>>, aiM, humanM) IN
  IF Len(r.moves) = 0 THEN {[move |-> nullMove, board |-> r.board]}
  ELSE {[move |-> r.moves[k], board |-> r.board] : k \in 1..Len(r.moves)}

\* The timer callback on a board of alternating play with at most MaxEmpty
\* empty cells: bestMove runs on the array [...board]; probe keeps the array
\* as it was handed over (board, the computer's mark ai) and as the call left
\* it (after); the controller's board takes the move as in aiTimeout.
SearchInputs ==
  {r \in [Cells -> Marks \cup {null}] \X Marks :
     count(r[1], null) <= MaxEmpty /\ alternating(r[1])}

SearchInit ==
  /\ human = "X"
  /\ turn = "X"
  /\ result = null
  /\ winLine = <<>>
  /\ score = [wins |-> 0, losses |-> 0, draws |-> 0]
  /\ soundOn = TRUE
  /\ scoredRef = null
  /\ timer = NoTimer
  /\ lastOp = [op |-> "mount", prevHuman |-> "X", pend |-> FALSE,
               again |-> FALSE]
  /\ \E r \in SearchInputs :
       /\ board = r[1]
       /\ probe = [board |-> r[1], ai |-> r[2], done |-> FALSE,
                   move |-> nullMove, after |-> r[1]]

RunSearch ==
  /\ ~probe.done
  /\ \E r \in bestMoveInPlace(probe.board, probe.ai, aiFor(probe.ai)) :
       /\ probe' = [probe EXCEPT !.done = TRUE, !.move = r.move,
                                 !.after = r.board]
       /\ board' = aiTimeout(cur, [board |-> board, ai |-> probe.ai,
                                   human |-> aiFor(probe.ai)], r.move).board
  /\ UNCHANGED <<human, turn, result, winLine, score, soundOn, scoredRef,
                 timer, lastOp>>

SearchNext == RunSearch

SpecSearch == SearchInit /\ [][SearchNext]_vars

-----------------------------------------------------------------------------
(* One path of the search: the calls from bestMove down to a terminal board *)

\* The boards the controller searches: alternating play, no complete line,
\* an empty cell (at most MaxEmpty), the computer's mark to move.
DescentRoots ==
  {b \in [Cells -> Marks \cup {null}] :
     /\ count(b, null) \in 1..MaxEmpty
     /\ alternating(b)
     /\ winnerInfo(b) = NoWin}

\* probe follows one path: root is the board bestMove was called on, board
\* the array as the innermost call sees it, d the moves placed on it since
\* the root, depth and isMax the arguments of the innermost minimax call,
\* scored and score its return once it returned at a terminal board.
DescentInit ==
  /\ board = emptyBoard
  /\ human = "X"
  /\ turn = "X"
  /\ result = null
  /\ winLine = <<>>
  /\ score = [wins |-> 0, losses |-> 0, draws |-> 0]
  /\ soundOn = TRUE
  /\ scoredRef = null
  /\ timer = NoTimer
  /\ lastOp = [op |-> "mount", prevHuman |-> "X", pend |-> FALSE,
               again |-> FALSE]
  /\ \E b \in DescentRoots :
       probe = [root |-> b, ai |-> mover(b), board |-> b, d |-> 0,
                depth |-> 0, isMax |-> TRUE, scored |-> FALSE, score |-> 0]

\* bestMove: board[i] = ai; minimax(board, 0, false, ai, human)
PlaceCandidate(i) ==
  /\ probe.d = 0
  /\ probe.board[i] = null
  /\ probe' = [probe EXCEPT !.board = placeCell(@, i, probe.ai), !.d = 1,
                            !.depth = 0, !.isMax = FALSE]
  /\ UNCHANGED <<board, human, turn, result, winLine, score, soundOn,
                 scoredRef, timer, lastOp>>

\* minimax past its two returns: board[i] = ai or human;
\* minimax(board, depth + 1, !isMax, ai, human)
Descend(i) ==
  /\ probe.d >= 1
  /\ ~probe.scored
  /\ winnerInfo(probe.board) = NoWin
  /\ ~isFull(probe.board)
  /\ probe.board[i] = null
  /\ probe' = [probe EXCEPT
                 !.board = placeCell(@, i, IF probe.isMax THEN probe.ai
                                           ELSE aiFor(probe.ai)),
                 !.d = @ + 1, !.depth = @ + 1, !.isMax = ~@]
  /\ UNCHANGED <<board, human, turn, result, winLine, score, soundOn,
                 scoredRef, timer, lastOp>>

\* minimax returning at a won or full board.
ReturnTerminal ==
  /\ probe.d >= 1
  /\ ~probe.scored
  /\ winnerInfo(probe.board) # NoWin \/ isFull(probe.board)
  /\ probe' = [probe EXCEPT
                 !.scored = TRUE,
                 !.score = minimaxBody(probe.board, probe.depth, probe.isMax,
                                       probe.ai, {})]
  /\ UNCHANGED <<board, human, turn, result, winLine, score, soundOn,
                 scoredRef, timer, lastOp>>

DescentNext ==
  \/ \E i \in Cells : PlaceCandidate(i)
  \/ \E i \in Cells : Descend(i)
  \/ ReturnTerminal

SpecDescent == DescentInit /\ [][DescentNext]_vars

-----------------------------------------------------------------------------
(* Properties *)

\* Some line of the board holds three marks m.
hasLine(b, m) ==
  \E k \in 1..Len(LINES) : \A j \in 1..3 : b[LINES[k][j]] = m

\* The board ends the round: a completed line, or no empty cell.
boardOver(b) ==
  \/ hasLine(b, "X")
  \/ hasLine(b, "O")
  \/ \A i \in Cells : b[i] # null

\* C1: while the human holds X (the human moves first, the computer
\* second), no line of the human's mark is ever complete and a finished
\* round is a computer win or a draw, whatever the human plays and whichever
\* of its best moves the computer picks.
ComputerSecondNeverLoses ==
  human = "X" =>
    /\ ~hasLine(board, "X")
    /\ result \in {null, "ai", "draw"}

\* A round the computer won as O, moving second.
ComputerSecondWins ==
  /\ human = "X"
  /\ result = "ai"
  /\ hasLine(board, "O")
  /\ lastOp.op = "aiTimeout"

\* C2: bestMove never returns the index of a non-empty cell: on a board
\* with an empty cell it returns an index in 0..8 of an empty cell, and on
\* a board without one it returns null.
BestMoveReturnsEmptyCell ==
  probe.done =>
    IF \A i \in Cells : probe.board[i] # null
    THEN probe.move = nullMove
    ELSE probe.move \in Cells /\ probe.board[probe.move] = null

\* bestMove returned a cell of a board that holds marks and empty cells.
BestMoveCalledOnPartBoard ==
  /\ probe.done
  /\ probe.move \in Cells
  /\ \E i \in Cells : probe.board[i] # null
  /\ Cardinality({i \in Cells : probe.board[i] = null}) >= 2

\* C3: clickCell(idx) leaves board, turn, outcome, winning line and score as
\* they are when cell idx is occupied, when it is not the human's turn, or
\* when the board already holds a completed line or is full: a step that
\* changes any of them is not clickCell(idx) for such an idx.
IllegalClickIsNoOp ==
  [][~UNCHANGED <<board, turn, result, winLine, score>> =>
       \A idx \in Cells :
         ( \/ board[idx] # null
           \/ turn # human
           \/ boardOver(board) )
         => ~ClickCell(idx)]_vars

\* A click on a finished round in which it is the human's turn and a cell is
\* still empty: only the finished round can have rejected it.
ClickAfterRoundOver ==
  /\ lastOp.op = "clickCell"
  /\ result # null
  /\ turn = human
  /\ \E i \in Cells : board[i] = null

\* C4: the score changes exactly once per completed round: in the step in
\* which the outcome appears, the counter of that outcome grows by one and
\* the other two stay; in every other step (moves, restarts, reassignments,
\* the sound toggle re-running the score effect) the score stays.
ScoredOncePerRound ==
  [][IF result = null /\ result' # null
     THEN score' =
            [wins |-> score.wins + (IF result' = "human" THEN 1 ELSE 0),
             losses |-> score.losses + (IF result' = "ai" THEN 1 ELSE 0),
             draws |-> score.draws + (IF result' = "draw" THEN 1 ELSE 0)]
     ELSE score' = score]_vars

\* The sound was toggled on a finished round, the second the session scored.
ScoreEffectRerunAfterRound ==
  /\ lastOp.op = "toggleSound"
  /\ result # null
  /\ scoredRef = result
  /\ total(score) = 2

\* C5: a pending computer move never outlives the board it was scheduled
\* for: a pending timer holds the current board and assignment, so the
\* board bestMove searches when the timer fires is the current board, and a
\* restart or reassignment leaves no timer of the board before it.
PendingMoveIsForCurrentBoard ==
  /\ timer # NoTimer =>
       /\ timer.board = board
       /\ timer.ai = ai
       /\ timer.human = human
       /\ result = null
       /\ turn = ai
  /\ ( /\ lastOp.pend
       /\ \/ lastOp.op = "restartRound"
          \/ lastOp.op = "chooseSymbol" /\ lastOp.prevHuman # human )
     => (timer = NoTimer \/ timer.board = emptyBoard)

\* restartRound while the computer's move was pending, the human holding X:
\* the move is dropped and none is scheduled.
RestartDroppedPendingMove ==
  /\ lastOp.op = "restartRound"
  /\ lastOp.pend
  /\ human = "X"
  /\ timer = NoTimer

\* C6 as stated: after chooseSymbol with the other mark the board is empty,
\* there is no outcome and no winning line, and it is the human's turn.
ReassignAwaitsHuman ==
  (lastOp.op = "chooseSymbol" /\ lastOp.prevHuman # human) =>
    /\ board = emptyBoard
    /\ result = null
    /\ winLine = <<>>
    /\ turn = human

\* C6 amended: after chooseSymbol with the other mark the board is empty,
\* there is no outcome and no winning line, and X is to move: the human when
\* the human now holds X, the computer (its move scheduled) when the human
\* now holds O.
ReassignAwaitsX ==
  (lastOp.op = "chooseSymbol" /\ lastOp.prevHuman # human) =>
    /\ board = emptyBoard
    /\ result = null
    /\ winLine = <<>>
    /\ turn = "X"
    /\ human = "X" => (turn = human /\ timer = NoTimer)
    /\ human = "O" => (turn = ai /\ timer # NoTimer)

\* The human took O after a round had been scored.
ReassignedToO ==
  /\ lastOp.op = "chooseSymbol"
  /\ lastOp.prevHuman = "X"
  /\ human = "O"
  /\ total(score) >= 1

\* C7 as stated: after restartRound the board is empty, there is no outcome
\* and no winning line, and the human is the party to move.
RestartAwaitsHuman ==
  lastOp.op = "restartRound" =>
    /\ board = emptyBoard
    /\ result = null
    /\ winLine = <<>>
    /\ turn = human

\* C7 amended: after restartRound the board is empty, there is no outcome
\* and no winning line, and X is to move: the human when the human holds X,
\* the computer (its move scheduled) when the human holds O.
RestartAwaitsX ==
  lastOp.op = "restartRound" =>
    /\ board = emptyBoard
    /\ result = null
    /\ winLine = <<>>
    /\ turn = "X"
    /\ human = "X" => (turn = human /\ timer = NoTimer)
    /\ human = "O" => (turn = ai /\ timer # NoTimer)

\* restartRound while the human holds O, after a round had been scored.
RestartedHoldingO ==
  /\ lastOp.op = "restartRound"
  /\ human = "O"
  /\ total(score) >= 1

\* C8: restartRound right after restartRound changes nothing: board, turn,
\* outcome, winning line, mark assignment and score are as the first call
\* left them.
RestartIsIdempotent ==
  [][(lastOp.op = "restartRound" /\ lastOp'.op = "restartRound")
     => UNCHANGED <<board, turn, result, winLine, human, score>>]_vars

\* Two calls of restartRound in a row.
RestartedTwice ==
  /\ lastOp.op = "restartRound"
  /\ lastOp.again

\* C9: once the round is over, the board and the outcome stay as they are
\* in every step but restartRound and chooseSymbol: no click and no
\* computer move changes them.
RoundOverIsFinal ==
  [][result # null =>
       \/ board' = board /\ result' = result
       \/ lastOp'.op \in {"restartRound", "chooseSymbol"}]_vars

\* A click on a round the computer won as X.
ClickOnLostRound ==
  /\ lastOp.op = "clickCell"
  /\ result = "ai"
  /\ human = "O"
  /\ hasLine(board, "X")

\* C10: on every board reached in play winnerInfo returns a result exactly
\* when one of the 8 lines holds three equal marks; the symbol returned is
\* a mark, the line returned is one of the 8 and holds that mark three
\* times; on the empty board it returns null.
WinnerInfoFindsLine ==
  LET w == winnerInfo(board) IN
  /\ w # NoWin <=> (hasLine(board, "X") \/ hasLine(board, "O"))
  /\ w # NoWin =>
       /\ w.symbol \in Marks
       /\ \E k \in 1..Len(LINES) : LINES[k] = w.line
       /\ \A j \in 1..3 : board[w.line[j]] = w.symbol
  /\ board = emptyBoard => w = NoWin

\* A board reached in play with a completed line.
WonBoardReached ==
  /\ winnerInfo(board) # NoWin
  /\ winLine # <<>>
  /\ result = "ai"

\* C11: in every state between events the outcome is a function of the
\* board and the assignment: human win iff a line of the human's mark is
\* complete, computer win iff a line of the computer's mark is complete,
\* draw iff the board is full without a complete line (the winning line then
\* being empty), in progress otherwise; the winning line of a win is a line
\* of LINES holding the winner's mark; a full board with a complete line is
\* a win, not a draw.
OutcomeFollowsBoard ==
  LET full == \A i \in Cells : board[i] # null
      line == hasLine(board, "X") \/ hasLine(board, "O")
  IN /\ result = "human" <=> hasLine(board, human)
     /\ result = "ai" <=> hasLine(board, ai)
     /\ result = "draw" <=> (full /\ ~line)
     /\ result = null <=> (~full /\ ~line)
     /\ result \in {"draw", null} => winLine = <<>>
     /\ result \in {"human", "ai"} =>
          /\ \E k \in 1..Len(LINES) : LINES[k] = winLine
          /\ \A j \in 1..3 :
               board[winLine[j]] = (IF result = "human" THEN human ELSE ai)
     /\ (full /\ line) => result \in {"human", "ai"}

\* A full board whose last move completed a line of the computer.
FullBoardWon ==
  /\ \A i \in Cells : board[i] # null
  /\ hasLine(board, ai)
  /\ result = "ai"
  /\ lastOp.op = "aiTimeout"

\* The board after the human, as X, opened on the centre.
centreOpening == [emptyBoard EXCEPT ![4] = "X"]

\* C12: on the board that is empty except for X on the centre (index 4),
\* every index bestMove can return for the computer as O is a corner:
\* 0, 2, 6 or 8.
CentreOpeningAnsweredOnCorner ==
  (probe.done /\ probe.board = centreOpening /\ probe.ai = "O")
    => probe.move \in {0, 2, 6, 8}

\* bestMove has answered the centre opening.
CentreOpeningAnswered ==
  /\ probe.done
  /\ probe.board = centreOpening
  /\ probe.ai = "O"
  /\ probe.move \in Cells

\* C13 as stated: called on a board that is full or already holds a
\* complete line, bestMove returns null.
BestMoveNullWhenOver ==
  (probe.done /\ boardOver(probe.board)) => probe.move = nullMove

\* C14: the search leaves its input untouched: when bestMove returns, the
\* array it was given holds cell for cell what it held before the call; so
\* does the array of every minimax call bestMove makes (and, these boards
\* being inputs too, of every call below); and the controller's board after
\* the timer callback is its board before, with at most the cell returned
\* set to the computer's mark.
SearchLeavesBoardUntouched ==
  /\ probe.done =>
       /\ probe.after = probe.board
       /\ board = IF probe.move = nullMove THEN probe.board
                  ELSE [probe.board EXCEPT ![probe.move] = probe.ai]
  /\ \A i \in emptyCells(probe.board) :
       LET c == placeCell(probe.board, i, probe.ai)
       IN minimaxInPlace(c, 0, FALSE, probe.ai, aiFor(probe.ai)).board = c

\* bestMove returned a cell of a board of play it had to search three moves
\* deep or more.
SearchedAndRestored ==
  /\ probe.done
  /\ probe.move \in Cells
  /\ ~boardOver(probe.board)
  /\ Cardinality(emptyCells(probe.board)) >= 3
  /\ board # probe.board

\* The minimax score of the computer's mark placed on cell i, the human to
\* reply.
candidateScore(b, i, aiM) ==
  minimax([b EXCEPT ![i] = aiM], 0, FALSE, aiM, aiFor(aiM))

\* The empty cells of the greatest score.
tiedBest(b, aiM) ==
  LET top == MaxOf({candidateScore(b, i, aiM) : i \in emptyCells(b)})
  IN {i \in emptyCells(b) : candidateScore(b, i, aiM) = top}

\* C15: on a board with an empty cell the indices bestMove can return are
\* exactly the empty cells whose minimax score is the greatest over all
\* empty cells: each of them can be returned, and the index returned is
\* one of them.
BestMoveReturnsExactlyTheTies ==
  emptyCells(probe.board) # {} =>
    /\ {r.move : r \in bestMoveInPlace(probe.board, probe.ai, aiFor(probe.ai))}
         = tiedBest(probe.board, probe.ai)
    /\ probe.done => probe.move \in tiedBest(probe.board, probe.ai)

\* bestMove returned a tied best index that is not the first one, on a
\* board that also has an empty cell of a lower score.
LaterTieReturned ==
  /\ probe.done
  /\ probe.move \in Cells
  /\ \E i \in tiedBest(probe.board, probe.ai) : i < probe.move
  /\ emptyCells(probe.board) # tiedBest(probe.board, probe.ai)

\* Mark m on the empty cell i completes a line: the two other cells of some
\* line through i hold m.
completes(b, i, m) ==
  /\ b[i] = null
  /\ \E k \in 1..Len(LINES) :
       /\ \E j \in 1..3 : LINES[k][j] = i
       /\ \A j \in 1..3 : LINES[k][j] # i => b[LINES[k][j]] = m

TerminalScoreCountsCandidate ==
  probe.scored =>
    probe.score =
      IF hasLine(probe.board, probe.ai) THEN 10 - probe.d
      ELSE IF hasLine(probe.board, aiFor(probe.ai)) THEN probe.d - 10
      ELSE 0

\* C17 amended: a terminal board reached d moves after the search root, the
\* candidate move counted, scores 10 - (d - 1) when the computer's mark has
\* a complete line, (d - 1) - 10 when the human's mark has one, and 0 when
\* the board is full without a line: the depth is the number of moves made
\* after the candidate move.
TerminalScoreSkipsCandidate ==
  probe.scored =>
    /\ probe.depth = probe.d - 1
    /\ probe.d = count(probe.root, null) - count(probe.board, null)
    /\ probe.score =
         IF hasLine(probe.board, probe.ai) THEN 10 - (probe.d - 1)
         ELSE IF hasLine(probe.board, aiFor(probe.ai)) THEN (probe.d - 1) - 10
         ELSE 0

\* A loss found four moves below the root, and scored.
DeepLossScored ==
  /\ probe.scored
  /\ probe.d = 4
  /\ hasLine(probe.board, aiFor(probe.ai))
  /\ probe.score = -7

\* C18: whenever the round is in progress and it is the computer's turn, the
\* timer being allowed to fire, eventually the computer has moved or
\* restartRound or a reassignment of marks has happened; the computer's move
\* sets exactly one empty cell to its mark, leaves the other cells, and
\* passes the turn to the human; toggling the sound while the move is
\* pending leaves it pending, for the same board.
ComputerEventuallyMoves ==
  /\ (result = null /\ turn = ai) ~>
       \/ lastOp.op = "aiTimeout"
       \/ lastOp.op = "restartRound"
       \/ lastOp.op = "chooseSymbol" /\ lastOp.prevHuman # human
  /\ [][lastOp'.op = "aiTimeout" =>
          /\ \E i \in Cells :
               /\ board[i] = null
               /\ board' = [board EXCEPT ![i] = ai]
          /\ turn' = human
          /\ human' = human]_vars
  /\ [][(lastOp'.op = "toggleSound" /\ result = null /\ turn = ai) =>
          /\ timer # NoTimer
          /\ timer' = timer
          /\ UNCHANGED <<board, turn, result>>]_vars

\* The computer has moved, the sound having been switched off before.
ComputerMovedAfterToggle ==
  /\ lastOp.op = "aiTimeout"
  /\ lastOp.pend
  /\ ~soundOn
  /\ turn = human
  /\ result = null

\* C19: in every reachable state the board is one of alternating play begun
\* by X: the number of X less the number of O is 0 or 1, turn is X exactly
\* when the numbers are equal and O when X has one more; and every step
\* that changes the board, restartRound and reassignment apart, sets exactly
\* one empty cell to the mark whose turn it was and leaves the other 8.
AlternatingPlay ==
  /\ [](LET nx == Cardinality({i \in Cells : board[i] = "X"})
            no == Cardinality({i \in Cells : board[i] = "O"})
        IN /\ nx - no \in {0, 1}
           /\ turn = "X" <=> nx = no
           /\ turn = "O" <=> nx = no + 1)
  /\ [][(board' # board /\ lastOp'.op \notin {"restartRound", "chooseSymbol"})
          => /\ lastOp'.op \in {"clickCell", "aiTimeout"}
             /\ turn = (IF lastOp'.op = "clickCell" THEN human ELSE ai)
             /\ \E i \in Cells :
                  /\ board[i] = null
                  /\ board' = [board EXCEPT ![i] = turn]]_vars

\* The computer, holding X, has placed its third mark.
ThirdXPlacedByComputer ==
  /\ lastOp.op = "aiTimeout"
  /\ human = "O"
  /\ Cardinality({i \in Cells : board[i] = "X"}) = 3
  /\ Cardinality({i \in Cells : board[i] = "O"}) = 2
  /\ turn = "O"

\* C20: no reachable board holds a complete line of X and a complete line
\* of O together, whatever the order of human moves, computer moves,
\* restarts and reassignments of the marks.
NoTwoWinners == ~(hasLine(board, "X") /\ hasLine(board, "O"))

\* The computer, holding O, has completed a line in a second round.
SecondRoundWonByO ==
  /\ hasLine(board, "O")
  /\ ~hasLine(board, "X")
  /\ human = "X"
  /\ score.losses = 2

\* C21: while the human holds O the computer, as X, moves first: after every
\* restartRound and every reassignment to O the first mark to reach the empty
\* board is an X placed by the timer callback; and no line of O is ever
\* complete and a finished round is a computer win or a draw, whatever the
\* human plays and whichever of its best moves the computer picks.
ComputerFirstNeverLoses ==
  /\ [](human = "O" =>
          /\ ~hasLine(board, "O")
          /\ result \in {null, "ai", "draw"}
          /\ board = emptyBoard => (turn = "X" /\ ai = "X" /\ timer # NoTimer))
  /\ [][(human = "O" /\ human' = "O" /\ board = emptyBoard /\ board' # board)
          => /\ lastOp'.op = "aiTimeout"
             /\ \E i \in Cells : board' = [emptyBoard EXCEPT ![i] = "X"]]_vars

\* A round the computer, moving first as X, ended in a draw with its fifth
\* mark.
ComputerFirstDrawn ==
  /\ human = "O"
  /\ result = "draw"
  /\ score.draws >= 1
  /\ lastOp.op = "aiTimeout"
  /\ \A i \in Cells : board[i] # null

\* C22: chooseSymbol called with the mark the human already holds changes
\* nothing, in every reachable state: board, turn, outcome, winning line,
\* score, mark assignment and a pending computer move are as they were, and
\* the round is not reset.
SameMarkIsNoOp ==
  [][(lastOp'.op = "chooseSymbol" /\ human' = human)
     => UNCHANGED <<board, turn, result, winLine, score, human, timer,
                    scoredRef, soundOn>>]_vars

\* The human chose the mark already held, in a round under way with the
\* computer's move pending.
SameMarkChosenMidRound ==
  /\ lastOp.op = "chooseSymbol"
  /\ lastOp.prevHuman = human
  /\ lastOp.pend
  /\ timer # NoTimer
  /\ board # emptyBoard
  /\ result = null

====
